---------------------------- MODULE Spec2Model ----------------------------
(***************************************************************************)
(* Framebuffer rendering pipeline of FiguresZCU104: the four scripts       *)
(* botafogo.py (display_image), nhd.py (display_dual_images),              *)
(* HousePepperCman.py (display_six_images) and animate-single-image.py     *)
(* (animate_image).  Each queries the device geometry, composes a          *)
(* screen-sized RGB raster, encodes it for the reported pixel format and   *)
(* writes the bytes to the device.                                         *)
(***************************************************************************)
EXTENDS Integers, Sequences, FiniteSets, TLC

(***************************************************************************)
(* Bounds of the model.                                                    *)
(***************************************************************************)
\* largest xres / yres the modelled device reports
MaxXres == 3
MaxYres == 2

(***************************************************************************)
(* Program constants.                                                      *)
(***************************************************************************)
\* the alpha byte np.insert() puts at index 3 of every pixel
ALPHA == 255
\* largest value of a uint8 channel of np.array(image)
MaxChan == 255

(***************************************************************************)
(* Integer helpers: numpy's >> , << and | on uint8 / uint16 operands.      *)
(***************************************************************************)
RECURSIVE Pow2(_)
Pow2(n) == IF n = 0 THEN 1 ELSE 2 * Pow2(n - 1)

\* x >> n
Shr(x, n) == x \div Pow2(n)

\* x.astype(np.uint16) << n : the result stays a uint16
Shl16(x, n) == (x * Pow2(n)) % 65536

\* a | b, bit by bit
RECURSIVE BitOr(_, _)
BitOr(a, b) ==
    IF a = 0 THEN b
    ELSE IF b = 0 THEN a
    ELSE (IF (a % 2 = 1) \/ (b % 2 = 1) THEN 1 ELSE 0)
         + 2 * BitOr(a \div 2, b \div 2)

(***************************************************************************)
(* Pixel encoder.  A pixel is <<r, g, b>>; var_info.blue is the ctypes     *)
(* array c_uint32 * 3 the FBIOGET_VSCREENINFO ioctl fills: the kernel's    *)
(* struct fb_bitfield {offset, length, msb_right}.  Python's blue[2] is    *)
(* the third element, blue[3] here.                                        *)
(***************************************************************************)
\* image_array[:, :, ::-1] on one pixel
ReverseChannels(px) == <<px[3], px[2], px[1]>>

\* the 32-bit branch swapping unconditionally
Encode32AlwaysSwap(px, blue) == ReverseChannels(px) \o <<ALPHA>>

\* bits_per_pixel == 32: optional RGB->BGR, then np.insert(.., 3, 255, axis=2)
Encode32(px, blue) ==
    (IF blue[3] = 0 THEN ReverseChannels(px) ELSE px) \o <<ALPHA>>

\* the RGB565 word with green shifted one bit too far
RGB565GreenShift6(px) ==
    BitOr(BitOr(Shl16(Shr(px[1], 3), 11), Shl16(Shr(px[2], 2), 6)),
          Shr(px[3], 3))

\* bits_per_pixel == 16: r | g | b as one uint16
RGB565(px) ==
    BitOr(BitOr(Shl16(Shr(px[1], 3), 11), Shl16(Shr(px[2], 2), 5)),
          Shr(px[3], 3))

\* tobytes() of one uint16 on the little-endian target
U16Bytes(w) == <<w % 256, w \div 256>>

Encode16(px) == U16Bytes(RGB565(px))

\* the if / elif of the encoder: any other depth leaves the uint8 RGB
\* array as it is
EncodePixel(px, vi) ==
    IF vi.bits_per_pixel = 32 THEN Encode32(px, vi.blue)
    ELSE IF vi.bits_per_pixel = 16 THEN Encode16(px)
    ELSE px

\* image_array.flatten().tobytes(): the pixels' bytes, row-major
RECURSIVE EncodeFrame(_, _)
EncodeFrame(arr, vi) ==
    IF arr = << >> THEN << >>
    ELSE EncodePixel(Head(arr), vi) \o EncodeFrame(Tail(arr), vi)


(***************************************************************************)
(* Sizes the layouts compute.  Python evaluates the scale factors in       *)
(* binary floating point: int(n * (num / den)) is the exact floor when     *)
(* den does not divide n * num, and otherwise the exact quotient or one    *)
(* nearer zero, whichever way the two roundings fall.                      *)
(***************************************************************************)
\* the values int(n * (num / den)) can take, for n >= 0 and den > 0;
\* int() truncates toward zero
TruncMul(n, num, den) ==
    LET a == IF num >= 0 THEN n * num ELSE n * (0 - num)
        q == a \div den
        m == IF a % den = 0 /\ q > 0 THEN {q - 1, q} ELSE {q}
    IN  IF num >= 0 THEN m ELSE {0 - x : x \in m}

\* int(xres * margin_percent / 100): one float division of an exact integer
Margin(res, margin_percent) == (res * margin_percent) \div 100

\* (xres - 4 * horizontal_margin) // 3
AvailableWidth(xres, margin_percent) ==
    (xres - 4 * Margin(xres, margin_percent)) \div 3

\* (yres - 3 * vertical_margin) // 2
AvailableHeight(yres, margin_percent) ==
    (yres - 3 * Margin(yres, margin_percent)) \div 2

\* the grid's scale taken as the larger of the two ratios
GridNewSizesMax(aw, ah, iw, ih) ==
    IF aw * ih >= ah * iw
    THEN {<<w, h>> : w \in TruncMul(iw, aw, iw), h \in TruncMul(ih, aw, iw)}
    ELSE {<<w, h>> : w \in TruncMul(iw, ah, ih), h \in TruncMul(ih, ah, ih)}

\* new_size of the grid: scale = min(aw / img.width, ah / img.height)
GridNewSizes(aw, ah, iw, ih) ==
    IF aw * ih <= ah * iw
    THEN {<<w, h>> : w \in TruncMul(iw, aw, iw), h \in TruncMul(ih, aw, iw)}
    ELSE {<<w, h>> : w \in TruncMul(iw, ah, ih), h \in TruncMul(ih, ah, ih)}

\* new_size of the orbit: scale_factor = min(xres / w * 0.5, yres / h * 0.5)
OrbitNewSizes(xres, yres, iw, ih) ==
    IF xres * ih <= yres * iw
    THEN {<<w, h>> : w \in TruncMul(iw, xres, 2 * iw),
                     h \in TruncMul(ih, xres, 2 * iw)}
    ELSE {<<w, h>> : w \in TruncMul(iw, yres, 2 * ih),
                     h \in TruncMul(ih, yres, 2 * ih)}

\* (new_width, new_height) of the dual layout
DualNewSize(xres, iw, ih) ==
    <<xres \div 2, ((xres \div 2) * ih) \div iw>>

\* cell i of the 2x3 grid: <<x, y, width, height>>
GridCell(i, xres, yres, margin_percent) ==
    LET hm == Margin(xres, margin_percent)
        vm == Margin(yres, margin_percent)
        aw == AvailableWidth(xres, margin_percent)
        ah == AvailableHeight(yres, margin_percent)
    IN  <<hm + (i % 3) * (aw + hm), vm + (i \div 3) * (ah + vm), aw, ah>>

\* where image i of size sz is pasted: <<x_offset, y_offset, width, height>>
GridRect(i, xres, yres, margin_percent, sz) ==
    LET c == GridCell(i, xres, yres, margin_percent)
    IN  <<c[1] + (c[3] - sz[1]) \div 2, c[2] + (c[4] - sz[2]) \div 2,
          sz[1], sz[2]>>

(***************************************************************************)
(* State.                                                                  *)
(***************************************************************************)
VARIABLES
    script,         \* the function that runs
    n_images,       \* len(image_paths)
    images,         \* the sizes the image files can have
    margin_percent, \* display_six_images' margin_percent
    device,         \* what the device reports: the VarScreenInfo it fills
    pc,             \* position in the script
    var_info,       \* result of get_var_info
    fix_info,       \* result of get_fix_info
    new_size,       \* new_size of the resized image
    i,              \* loop index of display_six_images
    paste_rect,     \* the last layout.paste: <<x, y, width, height>>
    image_array,    \* np.array of the composed frame, row-major pixels
    image_bytes,    \* the encoded buffer
    f,              \* the handle of open(fb_file, 'wb')
    f_buffer,       \* bytes f.write left in the BufferedWriter's buffer
    fb_written,     \* bytes the device received on that handle, from offset 0
    now,            \* time.time()
    start_time,     \* start_time of animate_image
    checked,        \* elapsed time the loop condition last read
    t,              \* t of the tick: elapsed time read in the loop body
    slept,          \* the argument of the last time.sleep
    ticks,          \* loop iterations started
    tick_writes,    \* f.write calls issued for the current frame
    n_var_queries,  \* FBIOGET_VSCREENINFO ioctls issued
    n_fix_queries,  \* FBIOGET_FSCREENINFO ioctls issued
    failed,         \* the operation whose exception reached the handler
    killed_at       \* where a KeyboardInterrupt was raised

vars == <<script, n_images, images, margin_percent, device, pc, var_info,
          fix_info, new_size, i, paste_rect, image_array, image_bytes, f,
          f_buffer, fb_written, now, start_time, checked, t, slept, ticks,
          tick_writes, n_var_queries, n_fix_queries, failed, killed_at>>

(***************************************************************************)
(* More bounds, and the inputs drawn from them.                            *)
(***************************************************************************)
\* duration of animate_image, in units of half a frame interval
Duration == 4
\* 1 / fps in the same units
FrameInterval == 2
\* longest time one tick's compose, encode and write take
MaxWork == 2
\* longest time between the loop condition's clock reading and the body's
MaxReadGap == 1
\* buffer_size of the BufferedWriter that open(fb_file, 'wb') returns, in
\* bytes
BufferSize == 8
\* largest width / height of the small source images
MaxImgDim == 2

Scripts == {"display_image", "display_dual_images", "display_six_images",
            "animate_image"}

Black == <<0, 0, 0>>
Sprite == <<255, 128, 7>>

\* pixel formats a device reports: bits_per_pixel and the blue fb_bitfield
\* <<offset, length, msb_right>>
Formats ==
    { [bits_per_pixel |-> 32, blue |-> <<0, 8, 0>>],
      [bits_per_pixel |-> 32, blue |-> <<16, 8, 0>>],
      [bits_per_pixel |-> 32, blue |-> <<0, 8, 1>>],
      [bits_per_pixel |-> 16, blue |-> <<0, 5, 0>>],
      [bits_per_pixel |-> 24, blue |-> <<0, 8, 0>>] }

Modes(resolutions, formats) ==
    { [xres |-> r[1], yres |-> r[2], bits_per_pixel |-> fm.bits_per_pixel,
       blue |-> fm.blue] : r \in resolutions, fm \in formats }

Resolutions == (1 .. MaxXres) \X (1 .. MaxYres)

\* screens the animation runs on; its loop does not depend on the
\* resolution: one screen too small for the sprite and one that holds it,
\* with frames that fit the write buffer and frames that do not
AnimResolutions == {<<1, 1>>, <<2, 2>>}

ImageSizes == (1 .. MaxImgDim) \X (1 .. MaxImgDim)

\* VarScreenInfo() / FixScreenInfo() before the ioctl: zero-filled
NoVarInfo == [xres |-> 0, yres |-> 0, bits_per_pixel |-> 0, blue |-> <<0, 0, 0>>]
NoFixInfo == [line_length |-> 0, smem_len |-> 0]

\* rasters of n pixels the image library can hand back: black with at most
\* one coloured pixel
Frames(n, colours) ==
    { [k \in 1 .. n |-> IF k = at THEN c ELSE Black] : at \in 1 .. n, c \in colours }

(***************************************************************************)
(* Initial states: a script about to run against a device.                 *)
(***************************************************************************)
Init ==
    /\ script \in Scripts
    /\ n_images \in (IF script = "display_six_images" THEN 5 .. 7 ELSE {1})
    /\ images = ImageSizes
    /\ margin_percent = 5
    /\ device \in Modes(IF script = "animate_image"
                         THEN AnimResolutions ELSE Resolutions, Formats)
    /\ pc = IF script = "display_six_images" THEN "check_args" ELSE "get_var_info"
    /\ var_info = NoVarInfo
    /\ fix_info = NoFixInfo
    /\ new_size = <<0, 0>>
    /\ i = 0
    /\ paste_rect = <<0, 0, 0, 0>>
    /\ image_array = << >>
    /\ image_bytes = << >>
    /\ f = "closed"
    /\ f_buffer = << >>
    /\ fb_written = << >>
    /\ now = 0
    /\ start_time = 0
    /\ checked = 0
    /\ t = 0
    /\ slept = 0
    /\ ticks = 0
    /\ tick_writes = 0
    /\ n_var_queries = 0
    /\ n_fix_queries = 0
    /\ failed = "none"
    /\ killed_at = "none"

\* groups of variables an action leaves alone together
inputs == <<script, n_images, images, margin_percent, device>>
layout == <<new_size, i, paste_rect>>
clock == <<now, start_time, checked, t, slept>>
queries == <<n_var_queries, n_fix_queries>>

(***************************************************************************)
(* Exceptions.  Every script wraps its body in try / except Exception.     *)
(***************************************************************************)
\* a handler that starts the body again
RetryOnException(op) == "get_var_info"

\* where control goes when op raises: the except clause
OnException(op) == "except"

\* a raise that leaves the handle as it is: a handle opened without with
RaiseNoClose(op) ==
    /\ pc' = OnException(op)
    /\ failed' = op
    /\ UNCHANGED f

\* raise inside the try block: the with block, if entered, closes the handle
Raise(op) ==
    /\ pc' = OnException(op)
    /\ failed' = op
    /\ f' = "closed"

(***************************************************************************)
(* display_six_images: the argument check.                                 *)
(***************************************************************************)
\* a check that lets short lists through
MoreThanSix(n) == n > 6

\* len(image_paths) != 6
WrongCount(n) == n # 6

CheckArgs ==
    /\ pc = "check_args"
    /\ IF WrongCount(n_images)
       THEN Raise("precondition")
       ELSE pc' = "get_var_info" /\ UNCHANGED <<f, failed>>
    /\ UNCHANGED <<inputs, var_info, fix_info, layout, image_array,
                   image_bytes, fb_written, f_buffer, clock, ticks, tick_writes,
                   queries, killed_at>>

(***************************************************************************)
(* Geometry queries: open(fb_file, 'r'), one ioctl, close.                 *)
(***************************************************************************)
GetVarInfo ==
    /\ pc = "get_var_info"
    /\ n_var_queries' = n_var_queries + 1
    /\ \/ /\ var_info' = device
          /\ pc' = "get_fix_info"
          /\ UNCHANGED <<f, failed>>
       \/ /\ Raise("var_query")
          /\ UNCHANGED var_info
    /\ UNCHANGED <<inputs, fix_info, layout, image_array, image_bytes,
                   fb_written, f_buffer, clock, ticks, tick_writes, n_fix_queries,
                   killed_at>>

\* the fixed descriptor of a device whose rows are not padded
FixOf(d) ==
    [line_length |-> d.xres * (d.bits_per_pixel \div 8),
     smem_len |-> d.xres * d.yres * (d.bits_per_pixel \div 8)]

GetFixInfo ==
    /\ pc = "get_fix_info"
    /\ n_fix_queries' = n_fix_queries + 1
    /\ \/ /\ fix_info' = FixOf(device)
          /\ pc' = IF script = "animate_image" THEN "setup" ELSE "compose"
          /\ UNCHANGED <<f, failed>>
       \/ /\ Raise("fix_query")
          /\ UNCHANGED fix_info
    /\ UNCHANGED <<inputs, var_info, layout, image_array, image_bytes,
                   fb_written, f_buffer, clock, ticks, tick_writes, n_var_queries,
                   killed_at>>

(***************************************************************************)
(* Composition.  Image.open, resize and paste belong to the image          *)
(* library: Image.open can fail on any file, resize rejects a size with a  *)
(* component below 1, and the pixels that come back are any raster of the  *)
(* screen's size.                                                          *)
(***************************************************************************)
ValidSize(sz) == sz[1] >= 1 /\ sz[2] >= 1

NPixels == var_info.xres * var_info.yres

\* display_image and display_dual_images: open, resize, (paste,) np.array
ComposeStill ==
    /\ pc = "compose"
    /\ script \in {"display_image", "display_dual_images"}
    /\ \E img \in images :
         LET sz == IF script = "display_image"
                   THEN <<var_info.xres, var_info.yres>>
                   ELSE DualNewSize(var_info.xres, img[1], img[2])
         IN  \/ /\ ValidSize(sz)
                /\ new_size' = sz
                /\ \E fr \in Frames(NPixels, {Black, Sprite}) : image_array' = fr
                /\ tick_writes' = 0
                /\ pc' = "encode"
                /\ UNCHANGED <<f, failed>>
             \/ /\ Raise("image")
                /\ UNCHANGED <<new_size, image_array, tick_writes>>
    /\ UNCHANGED <<inputs, var_info, fix_info, i, paste_rect, image_bytes,
                   fb_written, f_buffer, clock, ticks, queries, killed_at>>

\* display_six_images: margins, available space and the blank layout
ComposeGrid ==
    /\ pc = "compose"
    /\ script = "display_six_images"
    /\ i' = 0
    /\ pc' = "paste"
    /\ UNCHANGED <<inputs, var_info, fix_info, new_size, paste_rect,
                   image_array, image_bytes, f, fb_written, f_buffer, clock, ticks,
                   tick_writes, queries, failed, killed_at>>

\* one iteration of the loop over image_paths
GridPaste ==
    /\ pc = "paste"
    /\ i < n_images
    /\ \/ \E img \in images :
            \E sz \in GridNewSizes(AvailableWidth(var_info.xres, margin_percent),
                                   AvailableHeight(var_info.yres, margin_percent),
                                   img[1], img[2]) :
               IF ValidSize(sz)
               THEN /\ new_size' = sz
                    /\ paste_rect' = GridRect(i, var_info.xres, var_info.yres,
                                              margin_percent, sz)
                    /\ i' = i + 1
                    /\ UNCHANGED <<pc, f, failed>>
               ELSE /\ Raise("image")
                    /\ UNCHANGED <<new_size, paste_rect, i>>
       \/ /\ Raise("image")
          /\ UNCHANGED <<new_size, paste_rect, i>>
    /\ UNCHANGED <<inputs, var_info, fix_info, image_array, image_bytes,
                   fb_written, f_buffer, clock, ticks, tick_writes, queries, killed_at>>

\* after the loop: np.array(layout)
GridArray ==
    /\ pc = "paste"
    /\ i = n_images
    /\ \E fr \in Frames(NPixels, {Black, Sprite}) : image_array' = fr
    /\ tick_writes' = 0
    /\ pc' = "encode"
    /\ UNCHANGED <<inputs, var_info, fix_info, layout, image_bytes, f,
                   fb_written, f_buffer, clock, ticks, queries, failed, killed_at>>

(***************************************************************************)
(* animate_image: set-up, the timed loop and one tick's frame.             *)
(***************************************************************************)
\* open and resize the image, blank canvas, parameters, start_time
Setup ==
    /\ pc = "setup"
    /\ \/ \E img \in images :
            \E sz \in OrbitNewSizes(var_info.xres, var_info.yres, img[1], img[2]) :
               IF ValidSize(sz)
               THEN /\ new_size' = sz
                    /\ start_time' = now
                    /\ pc' = "loop_head"
                    /\ UNCHANGED <<f, failed>>
               ELSE /\ Raise("image")
                    /\ UNCHANGED <<new_size, start_time>>
       \/ /\ Raise("image")
          /\ UNCHANGED <<new_size, start_time>>
    /\ UNCHANGED <<inputs, var_info, fix_info, i, paste_rect, image_array,
                   image_bytes, fb_written, f_buffer, now, checked, t, slept, ticks,
                   tick_writes, queries, killed_at>>

\* a loop that runs one tick too many
LoopContinuesInclusive(elapsed) == elapsed <= Duration

\* while time.time() - start_time < duration
LoopContinues(elapsed) == elapsed < Duration

\* the loop condition reads the clock; when it holds the body reads the
\* clock again, possibly later, for t = time.time() - start_time; when it
\* fails the loop ends and t keeps the last tick's value
LoopHead ==
    /\ pc = "loop_head"
    /\ checked' = now - start_time
    /\ IF LoopContinues(now - start_time)
       THEN /\ \E d \in 0 .. MaxReadGap :
                 /\ now' = now + d
                 /\ t' = (now + d) - start_time
            /\ pc' = "compose"
            /\ ticks' = ticks + 1
       ELSE /\ pc' = "completed"
            /\ UNCHANGED <<now, t, ticks>>
    /\ UNCHANGED <<inputs, var_info, fix_info, layout, image_array,
                   image_bytes, f, fb_written, f_buffer, start_time, slept,
                   tick_writes, queries, failed, killed_at>>

\* anchor, canvas.copy(), paste, np.array(frame); the tick's work takes
\* some time
ComposeTick ==
    /\ pc = "compose"
    /\ script = "animate_image"
    /\ \E fr \in Frames(NPixels, {Black, Sprite}) : image_array' = fr
    /\ \E d \in 0 .. MaxWork : now' = now + d
    /\ tick_writes' = 0
    /\ pc' = "encode"
    /\ UNCHANGED <<inputs, var_info, fix_info, layout, image_bytes, f,
                   fb_written, f_buffer, start_time, checked, t, slept, ticks, queries,
                   failed, killed_at>>

(***************************************************************************)
(* Encoding and the frame write, the same in all four scripts.             *)
(***************************************************************************)
\* the pixel-format branch and flatten().tobytes()
Encode ==
    /\ pc = "encode"
    /\ image_bytes' = EncodeFrame(image_array, var_info)
    /\ pc' = "open"
    /\ UNCHANGED <<inputs, var_info, fix_info, layout, image_array, f,
                   fb_written, f_buffer, clock, ticks, tick_writes, queries, failed,
                   killed_at>>

\* with open(fb_file, 'wb') as f: a BufferedWriter with an empty buffer
\* over a handle at offset 0
OpenFb ==
    /\ pc = "open"
    /\ \/ /\ f' = "open"
          /\ f_buffer' = << >>
          /\ fb_written' = << >>
          /\ pc' = "write"
          /\ UNCHANGED failed
       \/ /\ Raise("open")
          /\ UNCHANGED <<f_buffer, fb_written>>
    /\ UNCHANGED <<inputs, var_info, fix_info, layout, image_array,
                   image_bytes, clock, ticks, tick_writes, queries, killed_at>>

\* the part of the frame the device has not received
Pending == SubSeq(image_bytes, Len(fb_written) + 1, Len(image_bytes))

\* the first k bytes of a byte string, and the rest
FirstBytes(bytes, k) == SubSeq(bytes, 1, k)
RestBytes(bytes, k) == SubSeq(bytes, k + 1, Len(bytes))

\* f.write(image_bytes) on the BufferedWriter: a frame that fits the buffer
\* is only copied into it; a larger one goes to the device in raw writes,
\* which can be short, until what is left fits the buffer, and that is
\* copied into it.  A raw write can raise OSError out of the with block.
WriteFb ==
    /\ pc = "write"
    /\ tick_writes' = IF fb_written = << >> THEN tick_writes + 1 ELSE tick_writes
    /\ IF Len(Pending) <= BufferSize
       THEN /\ f_buffer' = Pending
            /\ pc' = "close"
            /\ UNCHANGED <<fb_written, f, failed>>
       ELSE \/ \E k \in 1 .. Len(Pending) :
                 /\ fb_written' = fb_written \o FirstBytes(Pending, k)
                 /\ IF Len(Pending) - k <= BufferSize
                    THEN f_buffer' = RestBytes(Pending, k) /\ pc' = "close"
                    ELSE UNCHANGED f_buffer /\ pc' = "write"
                 /\ UNCHANGED <<f, failed>>
            \/ /\ Raise("write")
               /\ UNCHANGED <<f_buffer, fb_written>>
    /\ UNCHANGED <<inputs, var_info, fix_info, layout, image_array,
                   image_bytes, clock, ticks, queries, killed_at>>

\* leaving the with block: f.close() flushes the buffer to the device and
\* closes the handle; when the device stops taking bytes the flush raises
\* OSError, the handle is closed all the same and the rest is dropped
CloseFb ==
    /\ pc = "close"
    /\ \E k \in 0 .. Len(f_buffer) :
          /\ fb_written' = fb_written \o FirstBytes(f_buffer, k)
          /\ IF k = Len(f_buffer)
             THEN /\ f' = "closed"
                  /\ pc' = IF script = "animate_image" THEN "sleep" ELSE "displayed"
                  /\ UNCHANGED failed
             ELSE Raise("close")
    /\ f_buffer' = << >>
    /\ UNCHANGED <<inputs, var_info, fix_info, layout, image_array,
                   image_bytes, clock, ticks, tick_writes, queries, killed_at>>

\* time.sleep(1/fps)
Sleep ==
    /\ pc = "sleep"
    /\ slept' = FrameInterval
    /\ now' = now + FrameInterval
    /\ pc' = "loop_head"
    /\ UNCHANGED <<inputs, var_info, fix_info, layout, image_array,
                   image_bytes, f, fb_written, f_buffer, start_time, checked, t, ticks,
                   tick_writes, queries, failed, killed_at>>

(***************************************************************************)
(* Leaving the function, and __main__ after it.                            *)
(***************************************************************************)
\* the success print, the completion print or the except clause's print;
\* the function returns and __main__ enters its keep-alive loop
Return ==
    /\ pc \in {"displayed", "completed", "except"}
    /\ pc' = "idle"
    /\ UNCHANGED <<inputs, var_info, fix_info, layout, image_array,
                   image_bytes, f, fb_written, f_buffer, clock, ticks, tick_writes,
                   queries, failed, killed_at>>

\* while True: pass
IdleSpin ==
    /\ pc = "idle"
    /\ UNCHANGED vars

\* what the buffer can hold when a KeyboardInterrupt unwinds the with
\* block: at the f.write of a frame that fits the buffer the signal comes
\* before the call or during it, and then the call has filled the buffer
Unflushed ==
    IF pc = "write" /\ fb_written = << >> /\ Len(image_bytes) <= BufferSize
    THEN {<< >>, image_bytes}
    ELSE {f_buffer}

\* SIGINT: Python raises KeyboardInterrupt in the main thread wherever it
\* is.  except Exception does not catch it; __main__ catches it only
\* around the keep-alive loop.  A with block it unwinds closes its handle,
\* and the close flushes the buffer: the frame reaches the device then, or
\* the flush raises OSError, which replaces the KeyboardInterrupt and is
\* caught by except Exception.  A signal during the flush of a normal close
\* ends it after the bytes already taken.
KeyboardInterrupt ==
    /\ pc \notin {"exited", "killed"}
    /\ IF pc = "idle"
       THEN /\ pc' = "exited"
            /\ UNCHANGED <<killed_at, f, f_buffer, fb_written, failed,
                           tick_writes>>
       ELSE \E buf \in Unflushed :
               /\ f_buffer' = << >>
               /\ tick_writes' = IF pc = "write" /\ buf # << >>
                                 THEN tick_writes + 1 ELSE tick_writes
               /\ \/ \E k \in (IF pc = "close" THEN 0 .. Len(buf) ELSE {Len(buf)}) :
                        /\ fb_written' = fb_written \o FirstBytes(buf, k)
                        /\ pc' = "killed"
                        /\ killed_at' = pc
                        /\ f' = "closed"
                        /\ UNCHANGED failed
                  \/ \E k \in 0 .. (Len(buf) - 1) :
                        /\ fb_written' = fb_written \o FirstBytes(buf, k)
                        /\ Raise("close")
                        /\ UNCHANGED killed_at
    /\ UNCHANGED <<inputs, var_info, fix_info, layout, image_array,
                   image_bytes, clock, ticks, queries>>

Step ==
    \/ CheckArgs
    \/ GetVarInfo
    \/ GetFixInfo
    \/ ComposeStill
    \/ ComposeGrid
    \/ GridPaste
    \/ GridArray
    \/ Setup
    \/ LoopHead
    \/ ComposeTick
    \/ Encode
    \/ OpenFb
    \/ WriteFb
    \/ CloseFb
    \/ Sleep
    \/ Return

Next == Step \/ IdleSpin \/ KeyboardInterrupt

Spec == Init /\ [][Next]_vars

(***************************************************************************)
(* animate_image alone, with the interpreter making progress: a statement  *)
(* that can run does run.  SIGINT may or may not come.                     *)
(***************************************************************************)
InitAnimate ==
    /\ Init
    /\ script = "animate_image"

StepAnimate ==
    \/ GetVarInfo
    \/ GetFixInfo
    \/ Setup
    \/ LoopHead
    \/ ComposeTick
    \/ Encode
    \/ OpenFb
    \/ WriteFb
    \/ CloseFb
    \/ Sleep
    \/ Return

NextAnimate == StepAnimate \/ IdleSpin \/ KeyboardInterrupt

LiveAnimate == InitAnimate /\ [][NextAnimate]_vars /\ WF_vars(StepAnimate)

(***************************************************************************)
(* The encoder on its own: every channel value, every pixel format.        *)
(***************************************************************************)
\* pixels in which one channel takes every uint8 value
ProbePixels ==
    { <<v, a, b>> : v \in 0 .. MaxChan, a \in {0, MaxChan}, b \in {0, MaxChan} }
    \cup { <<a, v, b>> : v \in 0 .. MaxChan, a \in {0, MaxChan}, b \in {0, MaxChan} }
    \cup { <<a, b, v>> : v \in 0 .. MaxChan, a \in {0, MaxChan}, b \in {0, MaxChan} }

EncodeFormats ==
    { [bits_per_pixel |-> 32, blue |-> <<o, 8, m>>] : o \in {0, 16}, m \in {0, 1} }
    \cup { [bits_per_pixel |-> 16, blue |-> <<0, 5, 0>>],
           [bits_per_pixel |-> 24, blue |-> <<0, 8, 0>>] }

EncodeResolutions == {<<1, 1>>, <<2, 1>>}

InitEncode ==
    /\ script = "display_image"
    /\ n_images = 1
    /\ images = ImageSizes
    /\ margin_percent = 5
    /\ device \in Modes(EncodeResolutions, EncodeFormats)
    /\ pc = "encode"
    /\ var_info = device
    /\ fix_info = FixOf(device)
    /\ new_size = <<device.xres, device.yres>>
    /\ i = 0
    /\ paste_rect = <<0, 0, 0, 0>>
    /\ image_array \in Frames(device.xres * device.yres, ProbePixels)
    /\ image_bytes = << >>
    /\ f = "closed"
    /\ f_buffer = << >>
    /\ fb_written = << >>
    /\ now = 0
    /\ start_time = 0
    /\ checked = 0
    /\ t = 0
    /\ slept = 0
    /\ ticks = 0
    /\ tick_writes = 0
    /\ n_var_queries = 1
    /\ n_fix_queries = 1
    /\ failed = "none"
    /\ killed_at = "none"

SpecEncode == InitEncode /\ [][Encode]_vars

\* bytes per pixel of the encoded buffer
BytesPerPixel == Len(image_bytes) \div Len(image_array)

\* the bytes of pixel k in the encoded buffer
PixelBytes(k) ==
    SubSeq(image_bytes, (k - 1) * BytesPerPixel + 1, k * BytesPerPixel)

Encoded == pc = "open" /\ image_array # << >>

(***************************************************************************)
(* C1: on a 32-bit device every pixel becomes 4 bytes ending in 255, the   *)
(* first three being the source triplet reversed when the device reports   *)
(* a blue bit offset of 0 and the source triplet as it is otherwise.       *)
(***************************************************************************)
C1_BlueOffsetSelectsOrder ==
    (Encoded /\ var_info.bits_per_pixel = 32) =>
        /\ Len(image_bytes) = 4 * Len(image_array)
        /\ \A k \in 1 .. Len(image_array) :
             /\ PixelBytes(k)[4] = 255
             /\ SubSeq(PixelBytes(k), 1, 3) =
                  IF var_info.blue[1] = 0
                  THEN <<image_array[k][3], image_array[k][2], image_array[k][1]>>
                  ELSE image_array[k]

(***************************************************************************)
(* C2: on a 16-bit device the buffer holds 2 bytes per pixel, the          *)
(* little-endian word whose top 5 bits are r >> 3, middle 6 bits g >> 2    *)
(* and bottom 5 bits b >> 3.                                               *)
(***************************************************************************)
WordOf(bytes) == bytes[1] + 256 * bytes[2]

C2_RGB565Fields ==
    (Encoded /\ var_info.bits_per_pixel = 16) =>
        /\ Len(image_bytes) = 2 * var_info.xres * var_info.yres
        /\ \A k \in 1 .. Len(image_array) :
             LET w == WordOf(PixelBytes(k))
                 px == image_array[k]
             IN  /\ w \in 0 .. 65535
                 /\ w \div 2048 = px[1] \div 8
                 /\ (w \div 32) % 64 = px[2] \div 4
                 /\ w % 32 = px[3] \div 8
                 /\ w = (px[1] \div 8) * 2048 + (px[2] \div 4) * 32 + px[3] \div 8

\* a 16-bit frame holding a pixel whose green field is full
C2_Witness ==
    /\ Encoded
    /\ var_info.bits_per_pixel = 16
    /\ \E k \in 1 .. Len(image_array) :
         image_array[k][2] = 255 /\ image_array[k][1] = 0

(***************************************************************************)
(* C6: decoding the encoded buffer by the same channel-layout rule.        *)
(***************************************************************************)
\* undo the 32-bit branch: drop alpha, undo the swap the same test selects
Decode32(bytes, blue) ==
    IF blue[3] = 0 THEN <<bytes[3], bytes[2], bytes[1]>>
    ELSE <<bytes[1], bytes[2], bytes[3]>>

\* undo the 16-bit branch: take each field and shift it back
Decode16(bytes) ==
    LET w == WordOf(bytes)
    IN  <<(w \div 2048) * 8, ((w \div 32) % 64) * 4, (w % 32) * 8>>

Decoded(k) ==
    IF var_info.bits_per_pixel = 32 THEN Decode32(PixelBytes(k), var_info.blue)
    ELSE Decode16(PixelBytes(k))

Abs(x) == IF x < 0 THEN 0 - x ELSE x

\* C6 as claimed: the round trip is exact on the 32-bit path and within 4
\* of every channel on the 16-bit path.
C6_RoundTripWithin4 ==
    (Encoded /\ var_info.bits_per_pixel \in {16, 32}) =>
        \A k \in 1 .. Len(image_array) : \A c \in 1 .. 3 :
            IF var_info.bits_per_pixel = 32
            THEN Decoded(k)[c] = image_array[k][c]
            ELSE Abs(Decoded(k)[c] - image_array[k][c]) <= 4

\* C6 amended: the round trip is exact on the 32-bit path; on the 16-bit
\* path the decoded channel is the original with its low bits cleared, so
\* it is at most 7 below the original for red and blue and at most 3 below
\* for green, and never above it.
C6_RoundTripTruncates ==
    (Encoded /\ var_info.bits_per_pixel \in {16, 32}) =>
        \A k \in 1 .. Len(image_array) : \A c \in 1 .. 3 :
            LET lost == image_array[k][c] - Decoded(k)[c]
            IN  IF var_info.bits_per_pixel = 32 THEN lost = 0
                ELSE IF c = 2 THEN lost = image_array[k][c] % 4
                ELSE lost = image_array[k][c] % 8

\* a 16-bit frame holding a pixel that loses 7 in red
C6_Witness ==
    /\ Encoded
    /\ var_info.bits_per_pixel = 16
    /\ \E k \in 1 .. Len(image_array) :
         image_array[k][1] = 7 /\ Decoded(k)[1] = 0

(***************************************************************************)
(* The grid layout on its own: real resolutions, several margins, small    *)
(* and large source images.                                                *)
(***************************************************************************)
GridResolutions ==
    {<<1920, 1080>>, <<1280, 720>>, <<800, 600>>, <<100, 50>>} \cup Resolutions

GridImageSizes ==
    ImageSizes \cup {<<512, 459>>, <<640, 480>>, <<4000, 3000>>, <<3, 1000>>,
                     <<1000, 3>>, <<49, 49>>}

Margins == {0, 5, 10, 25, 30}

InitGrid ==
    /\ script = "display_six_images"
    /\ n_images = 6
    /\ images = GridImageSizes
    /\ margin_percent \in Margins
    /\ device \in Modes(GridResolutions, {[bits_per_pixel |-> 32, blue |-> <<0, 8, 0>>]})
    /\ pc = "compose"
    /\ var_info = device
    /\ fix_info = FixOf(device)
    /\ new_size = <<0, 0>>
    /\ i = 0
    /\ paste_rect = <<0, 0, 0, 0>>
    /\ image_array = << >>
    /\ image_bytes = << >>
    /\ f = "closed"
    /\ f_buffer = << >>
    /\ fb_written = << >>
    /\ now = 0
    /\ start_time = 0
    /\ checked = 0
    /\ t = 0
    /\ slept = 0
    /\ ticks = 0
    /\ tick_writes = 0
    /\ n_var_queries = 1
    /\ n_fix_queries = 1
    /\ failed = "none"
    /\ killed_at = "none"

SpecGrid == InitGrid /\ [][ComposeGrid \/ GridPaste]_vars

\* rectangle a = <<x, y, w, h>> lies inside rectangle b
Inside(a, b) ==
    /\ b[1] <= a[1] /\ a[1] + a[3] <= b[1] + b[3]
    /\ b[2] <= a[2] /\ a[2] + a[4] <= b[2] + b[4]

\* rectangles a and b share a pixel
Overlap(a, b) ==
    /\ a[3] > 0 /\ a[4] > 0 /\ b[3] > 0 /\ b[4] > 0
    /\ a[1] < b[1] + b[3] /\ b[1] < a[1] + a[3]
    /\ a[2] < b[2] + b[4] /\ b[2] < a[2] + a[4]

\* cell k as the layout is described: margins, cell size, origin
CellAsDescribed(k) ==
    LET hm == (var_info.xres * margin_percent) \div 100
        vm == (var_info.yres * margin_percent) \div 100
        cw == (var_info.xres - 4 * hm) \div 3
        ch == (var_info.yres - 3 * vm) \div 2
    IN  <<hm + (k % 3) * (cw + hm), vm + (k \div 3) * (ch + vm), cw, ch>>

(***************************************************************************)
(* C5: in the 2x3 grid every pasted rectangle lies inside the cell of its  *)
(* image, no two cells overlap, and 1920x1080 at 5% gives margins 96 and   *)
(* 54 and cells of 512 by 459.                                             *)
(***************************************************************************)
C5_PasteInsideCell ==
    /\ (var_info.xres = 1920 /\ var_info.yres = 1080 /\ margin_percent = 5) =>
          CellAsDescribed(0) = <<96, 54, 512, 459>>
    /\ i >= 1 =>
          /\ paste_rect[3] >= 1 /\ paste_rect[4] >= 1
          /\ Inside(paste_rect, CellAsDescribed(i - 1))
    /\ \A a \in 0 .. 5 : \A b \in 0 .. 5 :
          a # b => ~Overlap(CellAsDescribed(a), CellAsDescribed(b))

\* the sixth image pasted on 1920x1080 at 5%, filling the width of its cell
C5_Witness ==
    /\ i = 6
    /\ var_info.xres = 1920 /\ var_info.yres = 1080 /\ margin_percent = 5
    /\ paste_rect[1] = 96 + 2 * (512 + 96)
    /\ paste_rect[3] = 512

(***************************************************************************)
(* C3: a device reporting a depth other than 16 or 32 makes the render     *)
(* call fail: no encoded buffer is produced and nothing is written.        *)
(***************************************************************************)
C3_UnsupportedDepthFails ==
    (var_info # NoVarInfo /\ var_info.bits_per_pixel \notin {16, 32}) =>
        /\ image_bytes = << >>
        /\ fb_written = << >>
        /\ f = "closed"
        /\ pc \notin {"open", "write", "close", "displayed", "sleep"}

(***************************************************************************)
(* C4: display_six_images given other than six paths raises before any    *)
(* device query, composition or encoding, and never opens the device for   *)
(* writing.                                                                *)
(***************************************************************************)
C4_WrongCountFailsFirst ==
    (script = "display_six_images" /\ n_images # 6) =>
        /\ n_var_queries = 0 /\ n_fix_queries = 0
        /\ var_info = NoVarInfo /\ fix_info = NoFixInfo
        /\ i = 0 /\ image_array = << >> /\ image_bytes = << >>
        /\ f = "closed" /\ fb_written = << >>
        /\ pc \in {"check_args", "except", "idle", "exited", "killed"}
        /\ pc \in {"except", "idle", "exited"} => failed = "precondition"

\* five paths: the call has raised and returned
C4_Witness ==
    /\ script = "display_six_images"
    /\ n_images = 5
    /\ pc = "idle"
    /\ failed = "precondition"

(***************************************************************************)
(* C7: a failed geometry query or frame write ends the render call: after  *)
(* it nothing is queried, composed, encoded or written, no further tick    *)
(* starts, and no query or write of a frame is issued twice.  A frame      *)
(* write fails in f.write or in the flush of the close.                    *)
(***************************************************************************)
NothingMoreDone ==
    /\ f' = "closed"
    /\ UNCHANGED <<failed, var_info, fix_info, image_array, image_bytes,
                   fb_written, f_buffer, ticks, tick_writes, n_var_queries,
                   n_fix_queries>>

AfterFailure ==
    failed \in {"var_query", "fix_query", "write", "close"} => NothingMoreDone

C7_FailureAbortsNoRetry ==
    /\ [](n_var_queries <= 1 /\ n_fix_queries <= 1 /\ tick_writes <= 1)
    /\ [][AfterFailure]_vars

\* the write of the second animation frame failed and the call returned
C7_Witness ==
    /\ script = "animate_image"
    /\ failed = "write"
    /\ ticks = 2
    /\ pc = "idle"

(***************************************************************************)
(* C8: a frame reaches the device as one write of the whole encoded        *)
(* buffer from offset 0 of a handle opened for it, after both geometry     *)
(* queries; the handle is closed again on success and on failure.  What    *)
(* the one f.write has handed over is on the device or in the handle's     *)
(* buffer, and on the device once the handle is closed without error.      *)
(***************************************************************************)
C8_WholeFrameOneWrite ==
    /\ f = "open" =>
          /\ pc \in {"write", "close"}
          /\ n_var_queries = 1 /\ n_fix_queries = 1
          /\ var_info = device /\ fix_info = FixOf(device)
          /\ \E n \in 0 .. Len(image_bytes) :
                fb_written \o f_buffer = SubSeq(image_bytes, 1, n)
    /\ pc \in {"close", "displayed", "sleep"} =>
          /\ fb_written \o f_buffer = image_bytes
          /\ image_bytes = EncodeFrame(image_array, var_info)
          /\ tick_writes = 1
    /\ pc \in {"displayed", "sleep"} => fb_written = image_bytes
    /\ failed # "none" => f = "closed"

\* the second animation frame has been written and the handle closed
C8_Witness ==
    /\ script = "animate_image"
    /\ pc = "sleep"
    /\ ticks = 2
    /\ f = "closed"
    /\ Len(fb_written) = 4 * var_info.xres * var_info.yres

(***************************************************************************)
(* C9: a cancellation signal during the orbit animation is observed only   *)
(* between ticks, never during a frame write, and leaves no frame          *)
(* partially written.                                                      *)
(***************************************************************************)
C9_CancelNeverMidWrite ==
    (script = "animate_image" /\ pc = "killed") =>
        ~(0 < Len(fb_written) /\ Len(fb_written) < Len(image_bytes))

(***************************************************************************)
(* C10: the orbit driver goes Idle, Running, Stopped and never back; it    *)
(* reaches Stopped; no tick starts once the elapsed time read at the loop  *)
(* head has reached the duration.                                          *)
(***************************************************************************)
DriverState ==
    IF pc \in {"get_var_info", "get_fix_info", "setup"} THEN "Idle"
    ELSE IF pc \in {"loop_head", "compose", "encode", "open", "write",
                    "close", "sleep"} THEN "Running"
    ELSE "Stopped"

DriverRank == CASE DriverState = "Idle" -> 0
                [] DriverState = "Running" -> 1
                [] DriverState = "Stopped" -> 2

NeverBack == DriverRank' >= DriverRank

TickPcs == {"compose", "encode", "open", "write", "close", "sleep"}

C10_DriverStops ==
    /\ [][NeverBack]_vars
    /\ [](pc \in TickPcs => checked < Duration)
    /\ []((pc = "loop_head" /\ now - start_time >= Duration) => [](pc \notin TickPcs))
    /\ <>(DriverState = "Stopped")

\* the loop ran two ticks and ended because the duration was reached
C10_Witness ==
    /\ pc = "completed"
    /\ ticks >= 2
    /\ checked >= Duration
    /\ failed = "none"

(***************************************************************************)
(* C11: after each tick the driver sleeps for the frame interval less the  *)
(* time the tick's work took, floored at zero: no sleep at all when the    *)
(* work took the frame interval or longer.                                 *)
(***************************************************************************)
\* time the tick just slept after spent between reading t and the sleep
TickWork == (now - slept) - start_time - t

\* a tick has just slept and the loop head is next
JustSlept == script = "animate_image" /\ pc = "loop_head" /\ ticks >= 1

C11_SleepIsRemainder ==
    JustSlept =>
        slept = IF TickWork >= FrameInterval THEN 0 ELSE FrameInterval - TickWork

=============================================================================
